---------------------------- MODULE Spec2Model ----------------------------
(***************************************************************************)
(* MonrepStreamlit: the time-in-status accrual engine of                   *)
(* src/modules/processor.py (TaigaProcessor).                              *)
(*                                                                         *)
(* Time.  An instant is a natural number of ticks since Monday 00:00 UTC   *)
(* of week 0; one minute is TicksPerMinute ticks, so that intervals with   *)
(* a fractional number of minutes exist (the timestamps of the tracker     *)
(* carry seconds).  A duration "in minutes" is kept as a number of ticks:  *)
(* the value the code holds is ticks / TicksPerMinute.                     *)
(*                                                                         *)
(* Strings.  A string the code builds or compares is a sequence of         *)
(* one-character strings, so that formatting is computed digit by digit.   *)
(***************************************************************************)
EXTENDS Integers, Sequences, FiniteSets, TLC

\* ------------------------------------------------------------------ bounds

\* Resolution of the time line: ticks per minute.
TicksPerMinute == 2

\* Longest raw history handed to analyze_time.
MaxEntries == 3

\* ------------------------------------------------- calendar configuration

\* self.local_tz: a fixed-offset zone, minutes east of UTC (no DST rule).
local_tz == 420

OFFICE_HOURS_START_HOUR == 9
OFFICE_HOURS_START_MIN == 0
OFFICE_HOURS_END_HOUR == 18
OFFICE_HOURS_END_MIN == 0

\* self.holidays: a set of local calendar dates (day numbers; day 0 is the
\* Monday of week 0, so day 3 is a Thursday).
holidays == {3}

TicksPerDay == 1440 * TicksPerMinute

\* The instant hh:mm UTC of day d, plus frac ticks.
At(d, hh, mm, frac) == (d * 1440 + hh * 60 + mm) * TicksPerMinute + frac

\* ------------------------------------------------------- pandas' missing value

\* pd.to_datetime(None) is None, which the DataFrame holds as NaT.
NaT == 0 - 1

\* entry.get('created_at') of an entry without the key (or with null).
MissingTs == 0 - 1
\* A created_at string that is no date.
GarbageTs == 0 - 2

isna(x) == x = NaT

Max(a, b) == IF a >= b THEN a ELSE b
Min(a, b) == IF a <= b THEN a ELSE b

\* ------------------------------------------------------- the calendar model

astimezone(t) == t + local_tz * TicksPerMinute

date(t_local) == t_local \div TicksPerDay

weekday(d) == d % 7

work_start(d) ==
    d * TicksPerDay
      + (OFFICE_HOURS_START_HOUR * 60 + OFFICE_HOURS_START_MIN) * TicksPerMinute

work_end(d) ==
    d * TicksPerDay
      + (OFFICE_HOURS_END_HOUR * 60 + OFFICE_HOURS_END_MIN) * TicksPerMinute

\* DayMinutes with line 96 taking the start of the office day for
\* overlap_start, whenever the interval started.
DayMinutes_FromWorkStart(current_day, start_local, end_local) ==
    IF weekday(current_day) < 5 /\ current_day \notin holidays
    THEN LET overlap_start == work_start(current_day)
             overlap_end == Min(end_local, work_end(current_day))
         IN  IF overlap_end > overlap_start
             THEN overlap_end - overlap_start
             ELSE 0
    ELSE 0

\* DayMinutes with line 81 testing weekday() < 6: Saturday is a working day.
DayMinutes_SaturdayWorks(current_day, start_local, end_local) ==
    IF weekday(current_day) < 6 /\ current_day \notin holidays
    THEN LET overlap_start == Max(start_local, work_start(current_day))
             overlap_end == Min(end_local, work_end(current_day))
         IN  IF overlap_end > overlap_start
             THEN overlap_end - overlap_start
             ELSE 0
    ELSE 0

\* What one pass of the while loop adds for current_day.
DayMinutes(current_day, start_local, end_local) ==
    IF weekday(current_day) < 5 /\ current_day \notin holidays
    THEN LET overlap_start == Max(start_local, work_start(current_day))
             overlap_end == Min(end_local, work_end(current_day))
         IN  IF overlap_end > overlap_start
             THEN overlap_end - overlap_start
             ELSE 0
    ELSE 0

RECURSIVE DayLoop(_, _, _, _)
DayLoop(current_day, start_local, end_local, total_minutes) ==
    IF current_day <= date(end_local)
    THEN DayLoop(current_day + 1, start_local, end_local,
                 total_minutes + DayMinutes(current_day, start_local, end_local))
    ELSE total_minutes

\* Degenerate without the two pd.isna tests.
Degenerate_NoNaTest(start_utc, end_utc) == start_utc >= end_utc

\* The test of line 72.
Degenerate(start_utc, end_utc) ==
    isna(start_utc) \/ isna(end_utc) \/ start_utc >= end_utc

_calculate_office_minutes(start_utc, end_utc) ==
    IF Degenerate(start_utc, end_utc)
    THEN 0
    ELSE LET start_local == astimezone(start_utc)
             end_local == astimezone(end_utc)
         IN  DayLoop(date(start_local), start_local, end_local, 0)

\* ------------------------------------------------------- duration strings

Digit(k) == <<"0", "1", "2", "3", "4", "5", "6", "7", "8", "9">>[k + 1]

\* str(n) of a non-negative integer.
RECURSIVE Str(_)
Str(n) == IF n < 10 THEN <<Digit(n)>> ELSE Str(n \div 10) \o <<Digit(n % 10)>>

\* _format_duration taking a day for 8 hours.
_format_duration_Day8(minutes) ==
    IF minutes = 0
    THEN <<"0", "m">>
    ELSE LET hours == minutes \div (60 * TicksPerMinute)
             mins == (minutes % (60 * TicksPerMinute)) \div TicksPerMinute
         IN  IF hours >= 8
             THEN LET days == hours \div 8
                      rem_hours == hours % 8
                  IN  Str(days) \o <<"d", " ">> \o Str(rem_hours) \o <<"h", " ">>
                        \o Str(mins) \o <<"m">>
             ELSE Str(hours) \o <<"h", " ">> \o Str(mins) \o <<"m">>

\* _format_duration with line 112 testing hours > 9.
_format_duration_Above9(minutes) ==
    IF minutes = 0
    THEN <<"0", "m">>
    ELSE LET hours == minutes \div (60 * TicksPerMinute)
             mins == (minutes % (60 * TicksPerMinute)) \div TicksPerMinute
         IN  IF hours > 9
             THEN LET days == hours \div 9
                      rem_hours == hours % 9
                  IN  Str(days) \o <<"d", " ">> \o Str(rem_hours) \o <<"h", " ">>
                        \o Str(mins) \o <<"m">>
             ELSE Str(hours) \o <<"h", " ">> \o Str(mins) \o <<"m">>

\* minutes is a number of ticks: the code's value is minutes / TicksPerMinute.
_format_duration(minutes) ==
    IF minutes = 0
    THEN <<"0", "m">>
    ELSE LET hours == minutes \div (60 * TicksPerMinute)
             mins == (minutes % (60 * TicksPerMinute)) \div TicksPerMinute
         IN  IF hours >= 9
             THEN LET days == hours \div 9
                      rem_hours == hours % 9
                  IN  Str(days) \o <<"d", " ">> \o Str(rem_hours) \o <<"h", " ">>
                        \o Str(mins) \o <<"m">>
             ELSE Str(hours) \o <<"h", " ">> \o Str(mins) \o <<"m">>


\* ------------------------------------------------------- analyze_time: inputs

target_statuses == <<"To Do", "In progress", "Peer Review", "Need Approval", "Approved">>

Tracked == {target_statuses[k] : k \in 1..Len(target_statuses)}

\* The states the raw entries of the model move an item into: two tracked
\* ones and one the engine does not track.
ToStates == {"In progress", "Approved", "Done"}

\* created_at values of the raw entries (UTC; local time is 7 h later):
\* Monday 10:00, Monday 17:30:30 and Wednesday 08:00 local time.
Instants == {At(0, 3, 0, 0), At(0, 10, 30, 1), At(2, 1, 0, 0)}

\* Values of the wall clock: Monday 12:00 (earlier than two of the
\* instants: a skewed clock), Wednesday 10:00 and Saturday 11:00 local time.
ClockValues == {At(0, 5, 0, 0), At(2, 3, 0, 0), At(5, 4, 0, 0)}

\* values_diff of a raw entry: the key is absent, or its value is null, or
\* it is a dict, with or without a 'status' key; status is the value of
\* that key, a list.
DiffAbsent == [kind |-> "absent", has_status |-> FALSE, status |-> <<>>]
DiffNull == [kind |-> "null", has_status |-> FALSE, status |-> <<>>]
DiffOther == [kind |-> "dict", has_status |-> FALSE, status |-> <<>>]
DiffStatus(pair) == [kind |-> "dict", has_status |-> TRUE, status |-> pair]

\* The raw entries of the model.  A field the code never reads for an entry
\* takes one value: created_at of an entry without a 'status' key, and the
\* new state of an entry whose created_at is no date.
RawEntries ==
    {[values_diff |-> d, created_at |-> At(0, 3, 0, 0)] :
        d \in {DiffAbsent, DiffNull, DiffOther}}
    \cup
    {[values_diff |-> DiffStatus(<<"New">>), created_at |-> t] :
        t \in {At(0, 3, 0, 0), MissingTs}}
    \cup
    {[values_diff |-> DiffStatus(<<"New", "In progress">>), created_at |-> GarbageTs]}
    \cup
    {[values_diff |-> DiffStatus(<<"New", s>>), created_at |-> t] :
        s \in ToStates, t \in Instants \cup {MissingTs}}

Histories == UNION {[1..n -> RawEntries] : n \in 0..MaxEntries}

\* ------------------------------------------------------- analyze_time: steps

\* pd.to_datetime of a created_at value: None stays missing, a string that
\* is no date raises.
to_datetime_raises(c) == c = GarbageTs
to_datetime(c) == IF c = MissingTs THEN NaT ELSE c

\* Lines 37-43 for one entry: the exception it raises ("none" if none) and
\* the status change it appends (<<>> if none).
ExtractEntry(entry) ==
    LET v_diff == entry.values_diff
    IN  IF v_diff.kind = "null"
        THEN [exc |-> "TypeError", change |-> <<>>]
        ELSE IF ~v_diff.has_status
        THEN [exc |-> "none", change |-> <<>>]
        ELSE IF to_datetime_raises(entry.created_at)
        THEN [exc |-> "ValueError", change |-> <<>>]
        ELSE IF Len(v_diff.status) < 2
        THEN [exc |-> "IndexError", change |-> <<>>]
        ELSE [exc |-> "none",
              change |-> <<[Date |-> to_datetime(entry.created_at),
                            To |-> v_diff.status[2]]>>]

\* The for loop of lines 37-43 from entry k on, status_changes so far in acc.
RECURSIVE ExtractFrom(_, _, _)
ExtractFrom(entries, k, acc) ==
    IF k > Len(entries)
    THEN [exc |-> "none", changes |-> acc]
    ELSE LET r == ExtractEntry(entries[k])
         IN  IF r.exc # "none"
             THEN [exc |-> r.exc, changes |-> acc]
             ELSE ExtractFrom(entries, k + 1, acc \o r.change)

\* The stable order by 'Date': ascending, rows without a date last, rows
\* that compare equal in the order they had.
DateLE(a, b) == isna(b) \/ (~isna(a) /\ a <= b)

RECURSIVE InsertRow(_, _)
InsertRow(sorted, row) ==
    IF sorted = <<>>
    THEN <<row>>
    ELSE IF DateLE(sorted[Len(sorted)].Date, row.Date)
         THEN Append(sorted, row)
         ELSE Append(InsertRow(SubSeq(sorted, 1, Len(sorted) - 1), row),
                     sorted[Len(sorted)])

RECURSIVE sort_values(_)
sort_values(rows) ==
    IF rows = <<>>
    THEN <<>>
    ELSE InsertRow(sort_values(SubSeq(rows, 1, Len(rows) - 1)), rows[Len(rows)])

\* The rows of a frame with a date, and those without.
Dated(rows) == SelectSeq(rows, LAMBDA r : ~isna(r.Date))
Undated(rows) == SelectSeq(rows, LAMBDA r : isna(r.Date))

\* The bijections of 1..n.
Bijections(n) ==
    {f \in [1..n -> 1..n] : \A a, b \in 1..n : a # b => f[a] # f[b]}

\* The orders of the rows in which the dates ascend.
AscendingOrders(rows) ==
    {q \in {[k \in 1..Len(rows) |-> rows[f[k]]] : f \in Bijections(Len(rows))} :
        \A k \in 1..(Len(q) - 1) : q[k].Date <= q[k + 1].Date}

\* sort_outcomes without the sort: the frame as it was built.
sort_outcomes_Unsorted(rows) == {rows}

\* sort_values('Date') with its default kind='quicksort', which is not a
\* stable sort: the dated rows come out in ascending order, rows of one date
\* in an order the numpy build decides; the rows without a date are put
\* last, in the order they had.
sort_outcomes(rows) ==
    {q \o Undated(rows) : q \in AscendingOrders(Dated(rows))}

\* HasNext with the bound of line 56 off by one.
HasNext_OffByOne(idx, n) == idx + 2 < n

\* Line 56, with the 0-based index i of the code.
HasNext(idx, n) == idx + 1 < n

\* Accrue adding the signed elapsed time, neither cut to office hours nor
\* clamped.
Accrue_Signed(total, start_time, end_time) ==
    total + (end_time - start_time)

\* Accrue with = for +=.
Accrue_Overwrite(total, start_time, end_time) ==
    Max(0, _calculate_office_minutes(start_time, end_time))

\* Lines 64-66: the new total of the current status.
Accrue(total, start_time, end_time) ==
    total + Max(0, _calculate_office_minutes(start_time, end_time))

\* Lines 33 and 46.
ZeroResult == [s \in Tracked |-> <<"0", "m">>]

\* FormatAll keeping only the states that accrued time.
FormatAll_OnlyAccrued(durations) ==
    [s \in {t \in Tracked : durations[t] > 0} |-> _format_duration(durations[s])]

\* Line 69.
FormatAll(durations) == [s \in Tracked |-> _format_duration(durations[s])]

NoResult == [s \in {} |-> <<>>]

VARIABLES
    history_entries,    \* the argument of analyze_time
    pc,                 \* where the call is
    status_changes,     \* the list built by lines 36-43
    df_h,               \* the sorted frame
    i,                  \* loop index (0-based)
    durations_minutes,  \* the accumulator
    result,             \* the returned mapping
    raised,             \* the exception that left the call, "none" if none
    clock,              \* the wall clock
    clock_reads,        \* datetime.now() calls of this invocation
    now_used,           \* the value the last datetime.now() returned
    intervals,          \* the (status, start_time, end_time) of each pass
    call,               \* 1: first analysis of the log, 2: a later one
    sorted_before,      \* the frame the sort gave for this log before
    prev_minutes,       \* durations_minutes of the first analysis
    prev_now            \* now_used of the first analysis

analyzeVars == <<history_entries, pc, status_changes, df_h, i,
                 durations_minutes, result, raised, clock, clock_reads,
                 now_used, intervals, call, prev_minutes, prev_now, sorted_before>>

\* One call of _calculate_office_minutes, pass by pass.
VARIABLES
    com_pc,             \* where the call is
    com_start,          \* start_utc
    com_end,            \* end_utc
    com_day,            \* current_day
    com_total,          \* total_minutes
    com_added,          \* what each pass of the while loop added, per day
    com_result          \* the returned value

comVars == <<com_pc, com_start, com_end, com_day, com_total, com_added,
             com_result>>

\* ------------------------------------------------------- parsing a duration

\* str.split(): the maximal runs of characters other than the blank.
RECURSIVE SplitFrom(_, _, _, _)
SplitFrom(chars, k, word, parts) ==
    IF k > Len(chars)
    THEN IF word = <<>> THEN parts ELSE Append(parts, word)
    ELSE IF chars[k] = " "
         THEN SplitFrom(chars, k + 1, <<>>,
                        IF word = <<>> THEN parts ELSE Append(parts, word))
         ELSE SplitFrom(chars, k + 1, Append(word, chars[k]), parts)

split(chars) == SplitFrom(chars, 1, <<>>, <<>>)

\* c in part
Contains(part, c) == \E k \in 1..Len(part) : part[k] = c

\* part.replace(c, '')
replace(part, c) == SelectSeq(part, LAMBDA x : x # c)

IsDigit(c) == \E k \in 0..9 : Digit(k) = c
DigitValue(c) == CHOOSE k \in 0..9 : Digit(k) = c

\* int(chars) raises unless chars is a non-empty string of digits.
int_raises(chars) == chars = <<>> \/ \E k \in 1..Len(chars) : ~IsDigit(chars[k])

RECURSIVE int(_)
int(chars) ==
    IF chars = <<>>
    THEN 0
    ELSE 10 * int(SubSeq(chars, 1, Len(chars) - 1)) + DigitValue(chars[Len(chars)])

\* The strings of line 50 that parse to 0 at once.
ZeroMarkers ==
    {<<"0", "m">>, <<>>,
     <<"N", "o", "t", " ", "s", "p", "e", "c", "i", "f", "i", "e", "d">>}

\* Lines 55-57 for one part: whether int() raises, and the minutes added.
ParsePart(part) ==
    LET unit == IF Contains(part, "d") THEN "d"
                ELSE IF Contains(part, "h") THEN "h"
                ELSE IF Contains(part, "m") THEN "m"
                ELSE "none"
        digits == replace(part, unit)
    IN  IF unit = "none"
        THEN [raises |-> FALSE, minutes |-> 0]
        ELSE IF int_raises(digits)
        THEN [raises |-> TRUE, minutes |-> 0]
        ELSE [raises |-> FALSE,
              minutes |-> int(digits) * (IF unit = "d" THEN 9 * 60
                                         ELSE IF unit = "h" THEN 60
                                         ELSE 1)]

\* The for loop of lines 54-57 from part k on.
RECURSIVE ParseFrom(_, _, _)
ParseFrom(parts, k, total) ==
    IF k > Len(parts)
    THEN [raises |-> FALSE, minutes |-> total]
    ELSE LET r == ParsePart(parts[k])
         IN  IF r.raises
             THEN [raises |-> TRUE, minutes |-> total]
             ELSE ParseFrom(parts, k + 1, total + r.minutes)

\* TaigaVisualizer._duration_to_minutes: whole minutes.
_duration_to_minutes(duration_str) ==
    IF duration_str \in ZeroMarkers
    THEN [raises |-> FALSE, minutes |-> 0]
    ELSE ParseFrom(split(duration_str), 1, 0)

\* A total formatted by _format_duration and parsed back by the visualizer.
VARIABLES
    fmt_pc,             \* where the round trip is
    fmt_minutes,        \* the total handed to _format_duration (ticks)
    fmt_string,         \* the string _format_duration returned
    fmt_parsed          \* what _duration_to_minutes returned (minutes)

fmtVars == <<fmt_pc, fmt_minutes, fmt_string, fmt_parsed>>

\* fetcher.py line 37: the worker threads of get_all_stories.
max_workers == 2
Threads == 1..max_workers

\* analyze_time called by the worker threads on the one TaigaProcessor of
\* the fetcher.  The locals of the calls are kept per frame.
VARIABLES
    w_pc,               \* where each thread's call is
    w_history,          \* each thread's history_entries
    w_changes,          \* status_changes, per frame
    w_df,               \* df_h, per frame
    w_i,                \* i, per frame
    w_minutes,          \* durations_minutes, per frame
    w_now,              \* what datetime.now() returned to each thread
    w_result,           \* what each call returned
    p_local_tz,         \* self.local_tz of the shared processor
    p_holidays,         \* self.holidays of the shared processor
    w_clock             \* the wall clock

concVars == <<w_pc, w_history, w_changes, w_df, w_i, w_minutes, w_now,
              w_result, p_local_tz, p_holidays, w_clock>>

\* _safe_get_story_history called by the worker threads, one story each.
\* Time is kept as the elapsed times the code computes with: the clock
\* readings themselves grow without bound.
VARIABLES
    f_pc,               \* where each thread's call is
    f_attempts,         \* attempts, per call
    f_sleep_left,       \* what is left of each thread's time.sleep
    f_lock,             \* the holder of _rate_lock, 0 if free
    f_since_stamp,      \* time.time() - _last_call_ts, up to _min_interval
    f_since_start,      \* time since the latest history request started
    f_gap,              \* time between the two latest request starts
    f_requests,         \* history requests each call has started
    f_last_resp,        \* how each call's latest request ended, if it has
    f_exc,              \* the exception that left each call, "none" if none
    f_since_resp,       \* time since each call's latest firewall error
    f_retry_wait        \* that time, when the call's latest request started

fetchVars == <<f_pc, f_attempts, f_sleep_left, f_lock, f_since_stamp,
               f_since_start, f_gap, f_requests, f_last_resp, f_exc,
               f_since_resp, f_retry_wait>>

\* TaigaAuth.login.
VARIABLES
    a_pc,               \* where the call is
    a_url,              \* st.secrets["TAIGA_URL"]
    a_hosts,            \* the hosts of the attempts made, in order
    a_first_err,        \* the text of the exception that ended the first attempt
    a_first_at,         \* the call of the first attempt that raised it
    a_final_err,        \* the text of the exception that ended the fallback
    a_shown,            \* the messages passed to st.error
    a_result            \* what login returned

loginVars == <<a_pc, a_url, a_hosts, a_first_err, a_first_at, a_final_err,
               a_shown, a_result>>

\* TaigaFetcher.get_all_stories.
VARIABLES
    g_pc,               \* where the main thread is
    g_stories,          \* the list user_stories.list returned
    g_submitted,        \* how many stories have been submitted
    g_queue,            \* the work queue of the executor
    g_running,          \* the story each worker thread is fetching, 0 if none
    g_done,             \* the futures that have completed, with their outcome
    g_yielded,          \* the futures as_completed has yielded
    g_results           \* the list results

storiesVars == <<g_pc, g_stories, g_submitted, g_queue, g_running, g_done,
                 g_yielded, g_results>>

\* _calculate_office_minutes on timestamps of millisecond resolution, in
\* float arithmetic: a state's total with and without an extra transition.
VARIABLES
    add_pc,             \* which call is next
    add_build,          \* the pandas the program runs on
    add_a,              \* when the state was entered
    add_b,              \* when the extra transition into the same state happened
    add_c,              \* when the state was left
    add_split,          \* durations[state] of the log with the extra transition
    add_whole           \* durations[state] of the log without it

addVars == <<add_pc, add_build, add_a, add_b, add_c, add_split, add_whole>>

vars == <<analyzeVars, comVars, fmtVars, concVars, fetchVars, loginVars, storiesVars, addVars>>

\* The variables of the other operations, for an action of analyze_time.
notAnalyze == <<comVars, fmtVars, concVars, fetchVars, loginVars, storiesVars, addVars>>
notCom == <<analyzeVars, fmtVars, concVars, fetchVars, loginVars, storiesVars, addVars>>
notFmt == <<analyzeVars, comVars, concVars, fetchVars, loginVars, storiesVars, addVars>>
notConc == <<analyzeVars, comVars, fmtVars, fetchVars, loginVars, storiesVars, addVars>>
notFetch == <<analyzeVars, comVars, fmtVars, concVars, loginVars, storiesVars, addVars>>
notLogin == <<analyzeVars, comVars, fmtVars, concVars, fetchVars, storiesVars, addVars>>
notAnalyzeCom == <<fmtVars, concVars, fetchVars, loginVars, storiesVars, addVars>>
notStories == <<analyzeVars, comVars, fmtVars, concVars, fetchVars, loginVars, addVars>>
notAdd == <<analyzeVars, comVars, fmtVars, concVars, fetchVars, loginVars, storiesVars>>

\* No call of analyze_time is under way.
AnalyzeIdle ==
    /\ history_entries = <<>>
    /\ pc = "idle"
    /\ status_changes = <<>>
    /\ df_h = <<>>
    /\ i = 0
    /\ durations_minutes = <<>>
    /\ result = <<>>
    /\ raised = "none"
    /\ clock = 0
    /\ clock_reads = 0
    /\ now_used = NaT
    /\ intervals = <<>>
    /\ call = 1
    /\ prev_minutes = <<>>
    /\ prev_now = NaT
    /\ sorted_before = <<>>

\* No call of _calculate_office_minutes is under way.
ComIdle ==
    /\ com_pc = "idle"
    /\ com_start = NaT
    /\ com_end = NaT
    /\ com_day = 0
    /\ com_total = 0
    /\ com_added = <<>>
    /\ com_result = 0

\* No duration is being formatted.
FmtIdle ==
    /\ fmt_pc = "idle"
    /\ fmt_minutes = 0
    /\ fmt_string = <<>>
    /\ fmt_parsed = 0

ZeroMinutes == [s \in Tracked |-> 0]

\* No request has started yet.
NoneYet == 0 - 1

\* No history is being fetched.
FetchIdle ==
    /\ f_pc = <<>>
    /\ f_attempts = <<>>
    /\ f_sleep_left = <<>>
    /\ f_lock = 0
    /\ f_since_stamp = 0
    /\ f_since_start = NoneYet
    /\ f_gap = NoneYet
    /\ f_requests = <<>>
    /\ f_last_resp = <<>>
    /\ f_exc = <<>>
    /\ f_since_resp = <<>>
    /\ f_retry_wait = <<>>

\* No login is under way.
LoginIdle ==
    /\ a_pc = "idle"
    /\ a_url = <<>>
    /\ a_hosts = <<>>
    /\ a_first_err = "none"
    /\ a_first_at = "none"
    /\ a_final_err = "none"
    /\ a_shown = <<>>
    /\ a_result = "none"

\* get_all_stories is not running.
StoriesIdle ==
    /\ g_pc = "idle"
    /\ g_stories = <<>>
    /\ g_submitted = 0
    /\ g_queue = <<>>
    /\ g_running = <<>>
    /\ g_done = {}
    /\ g_yielded = {}
    /\ g_results = <<>>

\* No total is being compared.
AddIdle ==
    /\ add_pc = "idle"
    /\ add_build = "value"
    /\ add_a = 0
    /\ add_b = 0
    /\ add_c = 0
    /\ add_split = 0
    /\ add_whole = 0

\* No worker thread is running.
ConcIdle ==
    /\ w_pc = <<>>
    /\ w_history = <<>>
    /\ w_changes = <<>>
    /\ w_df = <<>>
    /\ w_i = <<>>
    /\ w_minutes = <<>>
    /\ w_now = <<>>
    /\ w_result = <<>>
    /\ p_local_tz = local_tz
    /\ p_holidays = holidays
    /\ w_clock = 0

MinClock == CHOOSE c \in ClockValues : \A d \in ClockValues : c <= d

Init ==
    /\ history_entries \in Histories
    /\ pc = "start"
    /\ status_changes = <<>>
    /\ df_h = <<>>
    /\ i = 0
    /\ durations_minutes = ZeroMinutes
    /\ result = NoResult
    /\ raised = "none"
    /\ clock = MinClock
    /\ clock_reads = 0
    /\ now_used = NaT
    /\ intervals = <<>>
    /\ call = 1
    /\ prev_minutes = ZeroMinutes
    /\ prev_now = NaT
    /\ sorted_before = <<>>
    /\ ComIdle
    /\ FmtIdle
    /\ ConcIdle
    /\ FetchIdle
    /\ LoginIdle
    /\ StoriesIdle
    /\ AddIdle

\* Time passes: before the call and between two passes of the loop.
Tick ==
    /\ UNCHANGED notAnalyze
    /\ pc \in {"start", "loop"}
    /\ \E c \in ClockValues : c > clock /\ clock' = c
    /\ UNCHANGED <<history_entries, pc, status_changes, df_h, i,
                   durations_minutes, result, raised, clock_reads, now_used,
                   intervals, call, prev_minutes, prev_now, sorted_before>>

\* Lines 32-33.
ReturnEmpty ==
    /\ UNCHANGED notAnalyze
    /\ pc = "start"
    /\ history_entries = <<>>
    /\ result' = ZeroResult
    /\ pc' = "done"
    /\ UNCHANGED <<history_entries, status_changes, df_h, i, durations_minutes,
                   raised, clock, clock_reads, now_used, intervals, call,
                   prev_minutes, prev_now, sorted_before>>

\* Lines 36-46.
Extract ==
    /\ UNCHANGED notAnalyze
    /\ pc = "start"
    /\ history_entries # <<>>
    /\ LET r == ExtractFrom(history_entries, 1, <<>>)
       IN  /\ status_changes' = r.changes
           /\ raised' = r.exc
           /\ pc' = IF r.exc # "none" THEN "raised"
                    ELSE IF r.changes = <<>> THEN "done"
                    ELSE "sort"
           /\ result' = IF r.exc = "none" /\ r.changes = <<>>
                        THEN ZeroResult
                        ELSE result
    /\ UNCHANGED <<history_entries, df_h, i, durations_minutes, clock,
                   clock_reads, now_used, intervals, call, prev_minutes,
                   prev_now, sorted_before>>

\* Line 48.  The sort is a function of its input: a later analysis of the
\* same log gets the order the first one got.
Sort ==
    /\ UNCHANGED notAnalyze
    /\ pc = "sort"
    /\ df_h' \in sort_outcomes(status_changes)
    /\ call = 2 => df_h' = sorted_before
    /\ sorted_before' = df_h'
    /\ i' = 0
    /\ pc' = "loop"
    /\ UNCHANGED <<history_entries, status_changes, durations_minutes, result,
                   raised, clock, clock_reads, now_used, intervals, call,
                   prev_minutes, prev_now>>

\* Lines 51-66: one pass of the loop.
LoopStep ==
    /\ UNCHANGED notAnalyze
    /\ pc = "loop"
    /\ i < Len(df_h)
    /\ LET current_status == df_h[i + 1].To
           start_time == df_h[i + 1].Date
           next == HasNext(i, Len(df_h))
           end_time == IF next THEN df_h[i + 2].Date ELSE clock
       IN  /\ clock_reads' = IF next THEN clock_reads ELSE clock_reads + 1
           /\ now_used' = IF next THEN now_used ELSE clock
           /\ durations_minutes' =
                 IF current_status \in DOMAIN durations_minutes
                 THEN [durations_minutes EXCEPT
                         ![current_status] = Accrue(@, start_time, end_time)]
                 ELSE durations_minutes
           /\ intervals' = Append(intervals,
                 [status |-> current_status, start_time |-> start_time,
                  end_time |-> end_time])
    /\ i' = i + 1
    /\ UNCHANGED <<history_entries, pc, status_changes, df_h, result, raised,
                   clock, call, prev_minutes, prev_now, sorted_before>>

\* Line 69.
Return ==
    /\ UNCHANGED notAnalyze
    /\ pc = "loop"
    /\ i >= Len(df_h)
    /\ result' = FormatAll(durations_minutes)
    /\ pc' = "done"
    /\ UNCHANGED <<history_entries, status_changes, df_h, i, durations_minutes,
                   raised, clock, clock_reads, now_used, intervals, call,
                   prev_minutes, prev_now, sorted_before>>

\* The same log is analysed again (the next report generation).
Reanalyze ==
    /\ UNCHANGED notAnalyze
    /\ pc = "done"
    /\ call = 1
    /\ call' = 2
    /\ prev_minutes' = durations_minutes
    /\ prev_now' = now_used
    /\ pc' = "start"
    /\ status_changes' = <<>>
    /\ df_h' = <<>>
    /\ i' = 0
    /\ durations_minutes' = ZeroMinutes
    /\ result' = NoResult
    /\ clock_reads' = 0
    /\ now_used' = NaT
    /\ intervals' = <<>>
    /\ UNCHANGED <<history_entries, raised, clock, sorted_before>>

Next ==
    \/ Tick
    \/ ReturnEmpty
    \/ Extract
    \/ Sort
    \/ LoopStep
    \/ Return
    \/ Reanalyze

Spec == Init /\ [][Next]_vars

\* ------------------------------------------------------- _calculate_office_minutes: steps

\* Last day of the instants handed to _calculate_office_minutes (day 0 is a
\* Monday, so days 5 and 6 are a weekend and day 7 the next Monday).
MaxCalDay == 7

\* Local times of day of those instants, in minutes after midnight: 02:00,
\* 08:00, 09:00, 10:00, 11:30, 17:00, 18:00 and 23:30.
CalTimes == {120, 480, 540, 600, 690, 1020, 1080, 1410}

\* The instant (UTC) that is minute m of local day d, plus frac ticks.
LocalAt(d, m, frac) == (d * 1440 + m - local_tz) * TicksPerMinute + frac

CalInstants ==
    {t \in {LocalAt(d, m, 0) : d \in 0..MaxCalDay, m \in CalTimes} : t >= 0}
    \cup {LocalAt(0, 1050, 1)}

ComInit ==
    /\ com_pc = "call"
    /\ com_start \in CalInstants \cup {NaT}
    /\ com_end \in CalInstants \cup {NaT}
    /\ com_day = 0
    /\ com_total = 0
    /\ com_added = <<>>
    /\ com_result = 0
    /\ AnalyzeIdle
    /\ FmtIdle
    /\ ConcIdle
    /\ FetchIdle
    /\ LoginIdle
    /\ StoriesIdle
    /\ AddIdle

\* Lines 72-78.
ComEnter ==
    /\ com_pc = "call"
    /\ IF Degenerate(com_start, com_end)
       THEN /\ com_result' = 0
            /\ com_pc' = "done"
            /\ UNCHANGED com_day
       ELSE /\ com_day' = date(astimezone(com_start))
            /\ com_pc' = "loop"
            /\ UNCHANGED com_result
    /\ UNCHANGED <<com_start, com_end, com_total, com_added>>
    /\ UNCHANGED notCom

\* NextDay standing still on a day off.
NextDay_StuckOnDayOff(day) ==
    IF weekday(day) < 5 /\ day \notin holidays THEN day + 1 ELSE day

\* Line 101: current_day += timedelta(days=1).
NextDay(day) == day + 1

\* Lines 80-101: one pass of the while loop.
ComDay ==
    /\ com_pc = "loop"
    /\ com_day <= date(astimezone(com_end))
    /\ LET added == DayMinutes(com_day, astimezone(com_start), astimezone(com_end))
       IN  /\ com_total' = com_total + added
           /\ com_added' = Append(com_added, [day |-> com_day, minutes |-> added])
    /\ com_day' = NextDay(com_day)
    /\ UNCHANGED <<com_pc, com_start, com_end, com_result>>
    /\ UNCHANGED notCom

\* Line 102.
ComReturn ==
    /\ com_pc = "loop"
    /\ com_day > date(astimezone(com_end))
    /\ com_result' = com_total
    /\ com_pc' = "done"
    /\ UNCHANGED <<com_start, com_end, com_day, com_total, com_added>>
    /\ UNCHANGED notCom

ComNext ==
    \/ ComEnter
    \/ ComDay
    \/ ComReturn

ComSpec == ComInit /\ [][ComNext]_vars

\* ------------------------------------------------------- format and parse: steps

\* Largest total formatted, in minutes (4860 minutes are 9 days; from 5400
\* on the day count has two digits).
MaxFmtMinutes == 5500

FmtInit ==
    /\ fmt_pc = "call"
    /\ fmt_minutes \in 0..(MaxFmtMinutes * TicksPerMinute)
    /\ fmt_string = <<>>
    /\ fmt_parsed = 0
    /\ AnalyzeIdle
    /\ ComIdle
    /\ ConcIdle
    /\ FetchIdle
    /\ LoginIdle
    /\ StoriesIdle
    /\ AddIdle

\* processor.py lines 104-117.
FmtFormat ==
    /\ fmt_pc = "call"
    /\ fmt_string' = _format_duration(fmt_minutes)
    /\ fmt_pc' = "formatted"
    /\ UNCHANGED <<fmt_minutes, fmt_parsed>>
    /\ UNCHANGED notFmt

\* visualizer.py lines 49-58, on the formatted string.
FmtParse ==
    /\ fmt_pc = "formatted"
    /\ LET r == _duration_to_minutes(fmt_string)
       IN  /\ fmt_parsed' = r.minutes
           /\ fmt_pc' = IF r.raises THEN "raised" ELSE "parsed"
    /\ UNCHANGED <<fmt_minutes, fmt_string>>
    /\ UNCHANGED notFmt

FmtNext ==
    \/ FmtFormat
    \/ FmtParse

FmtSpec == FmtInit /\ [][FmtNext]_vars

\* ------------------------------------------------------- concurrent calls: steps

\* Longest history a worker thread analyses.
MaxConcEntries == 2

ConcStates == {"In progress", "Approved"}
ConcInstants == {At(0, 3, 0, 0), At(0, 10, 30, 1)}
ConcClockValues == {At(0, 5, 0, 0), At(2, 3, 0, 0)}

ConcEntries ==
    {[values_diff |-> DiffStatus(<<"New", s>>), created_at |-> t] :
        s \in ConcStates, t \in ConcInstants}

ConcHistories == UNION {[1..n -> ConcEntries] : n \in 0..MaxConcEntries}

\* Frame with one set of locals for all the calls.
Frame_Shared(t) == 1

\* The frame of thread t's call: the locals of lines 29-66 belong to the call.
Frame(t) == t

\* Lines 52-66: the accumulator after the pass at index idx.
LoopPass(minutes, df, idx, now) ==
    LET current_status == df[idx + 1].To
        start_time == df[idx + 1].Date
        end_time == IF HasNext(idx, Len(df)) THEN df[idx + 2].Date ELSE now
    IN  IF current_status \in DOMAIN minutes
        THEN [minutes EXCEPT ![current_status] = Accrue(@, start_time, end_time)]
        ELSE minutes

\* The loop of lines 51-66 run from index idx with no other call under way.
RECURSIVE RunAlone(_, _, _, _)
RunAlone(minutes, df, idx, now) ==
    IF idx >= Len(df)
    THEN minutes
    ELSE RunAlone(LoopPass(minutes, df, idx, now), df, idx + 1, now)

ConcInit ==
    /\ w_pc = [t \in Threads |-> "start"]
    /\ w_history \in [Threads -> ConcHistories]
    /\ w_changes = [t \in Threads |-> <<>>]
    /\ w_df = [t \in Threads |-> <<>>]
    /\ w_i = [t \in Threads |-> 0]
    /\ w_minutes = [t \in Threads |-> ZeroMinutes]
    /\ w_now = [t \in Threads |-> NaT]
    /\ w_result = [t \in Threads |-> NoResult]
    /\ p_local_tz = local_tz
    /\ p_holidays = holidays
    /\ w_clock = CHOOSE c \in ConcClockValues : \A d \in ConcClockValues : c <= d
    /\ AnalyzeIdle
    /\ ComIdle
    /\ FmtIdle
    /\ FetchIdle
    /\ LoginIdle
    /\ StoriesIdle
    /\ AddIdle

\* Time passes.
ConcTick ==
    /\ \E c \in ConcClockValues : c > w_clock /\ w_clock' = c
    /\ UNCHANGED <<w_pc, w_history, w_changes, w_df, w_i, w_minutes, w_now,
                   w_result, p_local_tz, p_holidays>>
    /\ UNCHANGED notConc

\* Lines 29-46 in thread t.
ConcEnter(t) ==
    /\ w_pc[t] = "start"
    /\ LET r == ExtractFrom(w_history[t], 1, <<>>)
       IN  /\ w_minutes' = [w_minutes EXCEPT ![Frame(t)] = ZeroMinutes]
           /\ w_changes' = [w_changes EXCEPT ![Frame(t)] = r.changes]
           /\ w_pc' = [w_pc EXCEPT ![t] =
                         IF r.exc # "none" THEN "raised"
                         ELSE IF r.changes = <<>> THEN "done"
                         ELSE "sort"]
           /\ w_result' = [w_result EXCEPT ![t] =
                             IF r.exc = "none" /\ r.changes = <<>>
                             THEN ZeroResult
                             ELSE @]
    /\ UNCHANGED <<w_history, w_df, w_i, w_now, p_local_tz, p_holidays, w_clock>>
    /\ UNCHANGED notConc

\* Line 48 in thread t.
ConcSort(t) ==
    /\ w_pc[t] = "sort"
    /\ \E q \in sort_outcomes(w_changes[Frame(t)]) :
          w_df' = [w_df EXCEPT ![Frame(t)] = q]
    /\ w_i' = [w_i EXCEPT ![Frame(t)] = 0]
    /\ w_pc' = [w_pc EXCEPT ![t] = "loop"]
    /\ UNCHANGED <<w_history, w_changes, w_minutes, w_now, w_result,
                   p_local_tz, p_holidays, w_clock>>
    /\ UNCHANGED notConc

\* Lines 51-66 in thread t: one pass of the loop.
ConcPass(t) ==
    /\ w_pc[t] = "loop"
    /\ w_i[Frame(t)] < Len(w_df[Frame(t)])
    /\ w_minutes' = [w_minutes EXCEPT ![Frame(t)] =
                        LoopPass(@, w_df[Frame(t)], w_i[Frame(t)], w_clock)]
    /\ w_now' = [w_now EXCEPT ![t] =
                    IF HasNext(w_i[Frame(t)], Len(w_df[Frame(t)]))
                    THEN @
                    ELSE w_clock]
    /\ w_i' = [w_i EXCEPT ![Frame(t)] = @ + 1]
    /\ UNCHANGED <<w_pc, w_history, w_changes, w_df, w_result, p_local_tz,
                   p_holidays, w_clock>>
    /\ UNCHANGED notConc

\* Line 69 in thread t.
ConcReturn(t) ==
    /\ w_pc[t] = "loop"
    /\ w_i[Frame(t)] >= Len(w_df[Frame(t)])
    /\ w_result' = [w_result EXCEPT ![t] = FormatAll(w_minutes[Frame(t)])]
    /\ w_pc' = [w_pc EXCEPT ![t] = "done"]
    /\ UNCHANGED <<w_history, w_changes, w_df, w_i, w_minutes, w_now,
                   p_local_tz, p_holidays, w_clock>>
    /\ UNCHANGED notConc

ConcNext ==
    \/ ConcTick
    \/ \E t \in Threads : ConcEnter(t)
    \/ \E t \in Threads : ConcSort(t)
    \/ \E t \in Threads : ConcPass(t)
    \/ \E t \in Threads : ConcReturn(t)

ConcSpec == ConcInit /\ [][ConcNext]_vars

\* ------------------------------------------------------- _safe_get_story_history: steps

\* Time units in the 0.6 seconds of _min_interval.
UnitsPerInterval == 1

\* fetcher.py line 22: 0.6 seconds.
_min_interval == UnitsPerInterval

\* Whether d units are at least, and less than, n tenths of a second.
AtLeastTenths(d, n) == 6 * d >= n * UnitsPerInterval
UnderTenths(d, n) == 6 * d < n * UnitsPerInterval

\* How a history request can end: with the response, or with an exception
\* whose lower-cased text contains the given mark ("timeout": none of them).
Responses == {"ok", "<html>", "doctype", "bitninja", "timeout"}

\* What the request did, for the record kept of it: returned, raised an
\* error that carries a mark of the firewall, or raised another error.
Outcome(resp) ==
    IF resp = "ok" THEN "ok"
    ELSE IF resp \in {"<html>", "doctype", "bitninja"} THEN "firewall error"
    ELSE "other error"

\* IsFirewall taking every error for a firewall error.
IsFirewall_AnyError(err) == err # "ok"

\* Line 61.
IsFirewall(err) == err \in {"<html>", "doctype", "bitninja"}

\* Line 65: the sleeps of min(10, 2 ** attempts) + random.random() seconds,
\* random.random() being in [0, 1), that are a whole number of units.
BackoffSleeps(attempts) ==
    {d \in 0..(20 * UnitsPerInterval) :
        /\ AtLeastTenths(d, 10 * Min(10, 2 ^ attempts))
        /\ UnderTenths(d, 10 * (Min(10, 2 ^ attempts) + 1))}

\* Line 56: the sleeps of wait_for + random.random() * 0.2 seconds that are
\* a whole number of units.
RateSleeps(wait_for) ==
    {d \in wait_for..(wait_for + UnitsPerInterval) : UnderTenths(d - wait_for, 2)}

\* The longest backoff before a retry: attempts is 1 or 2 at line 65.
MaxBackoff == CHOOSE d \in BackoffSleeps(2) : \A c \in BackoffSleeps(2) : c <= d

FetchInit ==
    /\ f_pc = [t \in Threads |-> "try"]
    /\ f_attempts = [t \in Threads |-> 0]
    /\ f_sleep_left = [t \in Threads |-> 0]
    /\ f_lock = 0
    /\ f_since_stamp = _min_interval
    /\ f_since_start = NoneYet
    /\ f_gap = NoneYet
    /\ f_requests = [t \in Threads |-> 0]
    /\ f_last_resp = [t \in Threads |-> "none"]
    /\ f_exc = [t \in Threads |-> "none"]
    /\ f_since_resp = [t \in Threads |-> 0]
    /\ f_retry_wait = [t \in Threads |-> 0]
    /\ AnalyzeIdle
    /\ ComIdle
    /\ FmtIdle
    /\ ConcIdle
    /\ LoginIdle
    /\ StoriesIdle
    /\ AddIdle

\* A call between a firewall error and its next request.
Retrying(t) == f_attempts[t] > 0 /\ f_pc[t] \in {"backoff", "try", "locked", "send"}

\* One unit of time passes, wherever the threads are.
FetchTick ==
    /\ f_since_stamp' = Min(f_since_stamp + 1, _min_interval)
    /\ f_since_start' = IF f_since_start = NoneYet
                        THEN NoneYet
                        ELSE Min(f_since_start + 1, _min_interval)
    /\ f_sleep_left' = [t \in Threads |-> Max(0, f_sleep_left[t] - 1)]
    /\ f_since_resp' = [t \in Threads |->
                           IF Retrying(t)
                           THEN Min(f_since_resp[t] + 1, MaxBackoff)
                           ELSE f_since_resp[t]]
    /\ UNCHANGED <<f_pc, f_attempts, f_lock, f_gap, f_requests, f_last_resp,
                   f_exc, f_retry_wait>>
    /\ UNCHANGED notFetch

\* Lines 52-56: the thread takes the lock, computes wait_for and, if it is
\* positive, starts to sleep.
FetchAcquire(t) ==
    /\ f_pc[t] = "try"
    /\ f_lock = 0
    /\ f_lock' = t
    /\ LET wait_for == _min_interval - f_since_stamp
       IN  IF wait_for > 0
           THEN \E d \in RateSleeps(wait_for) :
                   f_sleep_left' = [f_sleep_left EXCEPT ![t] = d]
           ELSE UNCHANGED f_sleep_left
    /\ f_pc' = [f_pc EXCEPT ![t] = "locked"]
    /\ UNCHANGED <<f_attempts, f_since_stamp, f_since_start, f_gap, f_requests,
                   f_last_resp, f_exc, f_since_resp, f_retry_wait>>
    /\ UNCHANGED notFetch

\* Line 57 and the end of the with block, once the sleep is over.
FetchStamp(t) ==
    /\ f_pc[t] = "locked"
    /\ f_sleep_left[t] = 0
    /\ f_since_stamp' = 0
    /\ f_lock' = 0
    /\ f_pc' = [f_pc EXCEPT ![t] = "send"]
    /\ UNCHANGED <<f_attempts, f_sleep_left, f_since_start, f_gap, f_requests,
                   f_last_resp, f_exc, f_since_resp, f_retry_wait>>
    /\ UNCHANGED notFetch

\* Line 58: the history request starts.
FetchRequest(t) ==
    /\ f_pc[t] = "send"
    /\ f_gap' = f_since_start
    /\ f_since_start' = 0
    /\ f_requests' = [f_requests EXCEPT ![t] = @ + 1]
    /\ f_retry_wait' = [f_retry_wait EXCEPT ![t] = f_since_resp[t]]
    /\ f_since_resp' = [f_since_resp EXCEPT ![t] = 0]
    /\ f_last_resp' = [f_last_resp EXCEPT ![t] = "pending"]
    /\ f_pc' = [f_pc EXCEPT ![t] = "wait"]
    /\ UNCHANGED <<f_attempts, f_sleep_left, f_lock, f_since_stamp, f_exc>>
    /\ UNCHANGED notFetch

\* Line 58: the request returns the history.
FetchReturn(t) ==
    /\ f_pc[t] = "wait"
    /\ f_last_resp' = [f_last_resp EXCEPT ![t] = Outcome("ok")]
    /\ f_pc' = [f_pc EXCEPT ![t] = "returned"]
    /\ UNCHANGED <<f_attempts, f_sleep_left, f_lock, f_since_stamp,
                   f_since_start, f_gap, f_requests, f_exc, f_since_resp,
                   f_retry_wait>>
    /\ UNCHANGED notFetch

\* Line 63.
GiveUp(attempts) == attempts >= 3

\* Lines 59-68: the request raises.
FetchError(t) ==
    /\ f_pc[t] = "wait"
    /\ \E err \in Responses \ {"ok"} :
          /\ f_last_resp' = [f_last_resp EXCEPT ![t] = Outcome(err)]
          /\ IF IsFirewall(err)
             THEN /\ f_attempts' = [f_attempts EXCEPT ![t] = @ + 1]
                  /\ IF GiveUp(f_attempts[t] + 1)
                     THEN /\ f_exc' = [f_exc EXCEPT ![t] = "firewall_blocked"]
                          /\ f_pc' = [f_pc EXCEPT ![t] = "raised"]
                          /\ UNCHANGED f_sleep_left
                     ELSE /\ \E d \in BackoffSleeps(f_attempts[t] + 1) :
                                f_sleep_left' = [f_sleep_left EXCEPT ![t] = d]
                          /\ f_pc' = [f_pc EXCEPT ![t] = "backoff"]
                          /\ UNCHANGED f_exc
             ELSE /\ f_exc' = [f_exc EXCEPT ![t] = "reraised"]
                  /\ f_pc' = [f_pc EXCEPT ![t] = "raised"]
                  /\ UNCHANGED <<f_attempts, f_sleep_left>>
    /\ UNCHANGED <<f_lock, f_since_stamp, f_since_start, f_gap, f_requests,
                   f_since_resp, f_retry_wait>>
    /\ UNCHANGED notFetch

\* Line 67: the backoff is over, the loop goes round.
FetchRetry(t) ==
    /\ f_pc[t] = "backoff"
    /\ f_sleep_left[t] = 0
    /\ f_pc' = [f_pc EXCEPT ![t] = "try"]
    /\ UNCHANGED <<f_attempts, f_sleep_left, f_lock, f_since_stamp,
                   f_since_start, f_gap, f_requests, f_last_resp, f_exc,
                   f_since_resp, f_retry_wait>>
    /\ UNCHANGED notFetch

FetchNext ==
    \/ FetchTick
    \/ \E t \in Threads : FetchAcquire(t)
    \/ \E t \in Threads : FetchStamp(t)
    \/ \E t \in Threads : FetchRequest(t)
    \/ \E t \in Threads : FetchReturn(t)
    \/ \E t \in Threads : FetchError(t)
    \/ \E t \in Threads : FetchRetry(t)

FetchSpec == FetchInit /\ [][FetchNext]_vars

\* ------------------------------------------------------- login: steps

\* The configured URL: a server, with or without the path /api/v1 and with
\* or without a final slash.
Urls == [path : {"", "/api/v1"}, slash : BOOLEAN]

\* Line 35: url.replace('/api/v1/', '').rstrip('/').
base_url(url) ==
    IF url.path = "/api/v1" /\ url.slash
    THEN [path |-> "", slash |-> FALSE]
    ELSE [url EXCEPT !.slash = FALSE]

\* Line 52: url.rstrip('/').
full_url(url) == [url EXCEPT !.slash = FALSE]

\* How a call to the server can end: well, or with an exception whose text
\* is what the server sent: the page of the firewall, told by one of its
\* marks, or the refusal of the credentials.
ServerErrors == {"<html>", "doctype", "bitninja", "401 unauthorized"}

\* Lines 23-31: the text of the exception verify_connection raises when
\* me() raised one with the text err.
verify_connection(err) ==
    IF err \in {"<html>", "doctype", "bitninja"}
    THEN "Access Blocked by Firewall"
    ELSE err

\* Line 45.
StopsAtFirst(first_err) == first_err = "Access Blocked by Firewall"

\* Lines 59-63: the message shown for the error of the fallback.
FinalMessage(final_err) ==
    IF final_err = "<html>"
    THEN "Server returned HTML"
    ELSE "Authentication Failed"

LoginInit ==
    /\ a_pc = "auth1"
    /\ a_url \in Urls
    /\ a_hosts = <<>>
    /\ a_first_err = "none"
    /\ a_first_at = "none"
    /\ a_final_err = "none"
    /\ a_shown = <<>>
    /\ a_result = "none"
    /\ AnalyzeIdle
    /\ ComIdle
    /\ FmtIdle
    /\ ConcIdle
    /\ FetchIdle
    /\ StoriesIdle
    /\ AddIdle

\* Lines 35-37: the first attempt authenticates.
LoginAuthBasic ==
    /\ a_pc = "auth1"
    /\ a_hosts' = Append(a_hosts, base_url(a_url))
    /\ \/ /\ a_pc' = "verify1"
          /\ UNCHANGED <<a_first_err, a_first_at>>
       \/ \E err \in ServerErrors :
             /\ a_first_err' = err
             /\ a_first_at' = "auth"
             /\ a_pc' = "except1"
    /\ UNCHANGED <<a_url, a_final_err, a_shown, a_result>>
    /\ UNCHANGED notLogin

\* Lines 39-41, with verify_connection.
LoginVerifyBasic ==
    /\ a_pc = "verify1"
    /\ \/ /\ a_result' = "True"
          /\ a_pc' = "done"
          /\ UNCHANGED <<a_first_err, a_first_at>>
       \/ \E err \in ServerErrors :
             /\ a_first_err' = verify_connection(err)
             /\ a_first_at' = "me"
             /\ a_pc' = "except1"
             /\ UNCHANGED a_result
    /\ UNCHANGED <<a_url, a_hosts, a_final_err, a_shown>>
    /\ UNCHANGED notLogin

\* Lines 43-47: the first attempt raised.
LoginFirstError ==
    /\ a_pc = "except1"
    /\ IF StopsAtFirst(a_first_err)
       THEN /\ a_shown' = Append(a_shown, a_first_err)
            /\ a_result' = "False"
            /\ a_pc' = "done"
       ELSE /\ a_pc' = "auth2"
            /\ UNCHANGED <<a_shown, a_result>>
    /\ UNCHANGED <<a_url, a_hosts, a_first_err, a_first_at, a_final_err>>
    /\ UNCHANGED notLogin

\* Lines 51-53: the fallback authenticates.
LoginAuthFull ==
    /\ a_pc = "auth2"
    /\ a_hosts' = Append(a_hosts, full_url(a_url))
    /\ \/ /\ a_pc' = "verify2"
          /\ UNCHANGED a_final_err
       \/ \E err \in ServerErrors :
             /\ a_final_err' = err
             /\ a_pc' = "except2"
    /\ UNCHANGED <<a_url, a_first_err, a_first_at, a_shown, a_result>>
    /\ UNCHANGED notLogin

\* Lines 55-57, with verify_connection.
LoginVerifyFull ==
    /\ a_pc = "verify2"
    /\ \/ /\ a_result' = "True"
          /\ a_pc' = "done"
          /\ UNCHANGED a_final_err
       \/ \E err \in ServerErrors :
             /\ a_final_err' = verify_connection(err)
             /\ a_pc' = "except2"
             /\ UNCHANGED a_result
    /\ UNCHANGED <<a_url, a_hosts, a_first_err, a_first_at, a_shown>>
    /\ UNCHANGED notLogin

\* Lines 58-64: the fallback raised.
LoginFinalError ==
    /\ a_pc = "except2"
    /\ a_shown' = Append(a_shown, FinalMessage(a_final_err))
    /\ a_result' = "False"
    /\ a_pc' = "done"
    /\ UNCHANGED <<a_url, a_hosts, a_first_err, a_first_at, a_final_err>>
    /\ UNCHANGED notLogin

LoginNext ==
    \/ LoginAuthBasic
    \/ LoginVerifyBasic
    \/ LoginFirstError
    \/ LoginAuthFull
    \/ LoginVerifyFull
    \/ LoginFinalError

LoginSpec == LoginInit /\ [][LoginNext]_vars

\* ------------------------------------------------------- get_all_stories: steps

\* Most stories of a project.
MaxStories == 3

\* Line 32: the stories of the project, told by their ids.
StoryLists == {[k \in 1..n |-> k] : n \in 0..MaxStories}

\* Lines 24-28 and 116: the record of a story (its other columns are
\* functions of the story alone).
RecordOf(story) == [ID |-> story]

\* Pending yielding a completed future whether or not it was yielded before.
Pending_Again(done, yielded) == {f.story : f \in done}

\* Line 40: the completed futures as_completed has still to yield.
Pending(done, yielded) == {f.story : f \in done} \ yielded

StoriesInit ==
    /\ g_pc = "submit"
    /\ g_stories \in StoryLists
    /\ g_submitted = 0
    /\ g_queue = <<>>
    /\ g_running = [t \in Threads |-> 0]
    /\ g_done = {}
    /\ g_yielded = {}
    /\ g_results = <<>>
    /\ AnalyzeIdle
    /\ ComIdle
    /\ FmtIdle
    /\ ConcIdle
    /\ FetchIdle
    /\ LoginIdle
    /\ AddIdle

\* Line 39: the next story is submitted to the executor.
StoriesSubmit ==
    /\ g_pc = "submit"
    /\ g_submitted < Len(g_stories)
    /\ g_queue' = Append(g_queue, g_stories[g_submitted + 1])
    /\ g_submitted' = g_submitted + 1
    /\ UNCHANGED <<g_pc, g_stories, g_running, g_done, g_yielded, g_results>>
    /\ UNCHANGED notStories

\* Line 40: every story is submitted, the main thread waits for futures.
StoriesWait ==
    /\ g_pc = "submit"
    /\ g_submitted = Len(g_stories)
    /\ g_pc' = "collect"
    /\ UNCHANGED <<g_stories, g_submitted, g_queue, g_running, g_done,
                   g_yielded, g_results>>
    /\ UNCHANGED notStories

\* A worker thread without work takes the oldest story of the queue.
StoriesTake(t) ==
    /\ g_running[t] = 0
    /\ g_queue # <<>>
    /\ g_running' = [g_running EXCEPT ![t] = Head(g_queue)]
    /\ g_queue' = Tail(g_queue)
    /\ UNCHANGED <<g_pc, g_stories, g_submitted, g_done, g_yielded, g_results>>
    /\ UNCHANGED notStories

\* Lines 24-28 in a worker thread: fetch_single_story_data returns the
\* record of the story, or raises.
StoriesFinish(t) ==
    /\ g_running[t] # 0
    /\ \E ok \in BOOLEAN :
          g_done' = g_done \cup {[story |-> g_running[t], ok |-> ok]}
    /\ g_running' = [g_running EXCEPT ![t] = 0]
    /\ UNCHANGED <<g_pc, g_stories, g_submitted, g_queue, g_yielded, g_results>>
    /\ UNCHANGED notStories

\* Lines 40-42: as_completed yields a completed future; its result is
\* appended, or its exception leaves get_all_stories.
StoriesCollect ==
    /\ g_pc = "collect"
    /\ \E f \in g_done :
          /\ f.story \in Pending(g_done, g_yielded)
          /\ g_yielded' = g_yielded \cup {f.story}
          /\ IF f.ok
             THEN /\ g_results' = Append(g_results, RecordOf(f.story))
                  /\ UNCHANGED g_pc
             ELSE /\ g_pc' = "raised"
                  /\ UNCHANGED g_results
    /\ UNCHANGED <<g_stories, g_submitted, g_queue, g_running, g_done>>
    /\ UNCHANGED notStories

\* Lines 44-45: every future was yielded.
StoriesReturn ==
    /\ g_pc = "collect"
    /\ g_yielded = {g_stories[k] : k \in 1..Len(g_stories)}
    /\ g_pc' = "returned"
    /\ UNCHANGED <<g_stories, g_submitted, g_queue, g_running, g_done,
                   g_yielded, g_results>>
    /\ UNCHANGED notStories

StoriesNext ==
    \/ StoriesSubmit
    \/ StoriesWait
    \/ \E t \in Threads : StoriesTake(t)
    \/ \E t \in Threads : StoriesFinish(t)
    \/ StoriesCollect
    \/ StoriesReturn

StoriesSpec == StoriesInit /\ [][StoriesNext]_vars

\* ------------------------------------------------------- analyze_time step by step

\* Longest history of a call followed through _calculate_office_minutes.
MaxTermEntries == 2

TermHistories == UNION {[1..n -> RawEntries] : n \in 0..MaxTermEntries}

\* A call of analyze_time whose calls of _calculate_office_minutes are
\* followed pass by pass of the while loop.
TermInit ==
    /\ history_entries \in TermHistories
    /\ pc = "start"
    /\ status_changes = <<>>
    /\ df_h = <<>>
    /\ i = 0
    /\ durations_minutes = ZeroMinutes
    /\ result = NoResult
    /\ raised = "none"
    /\ clock = MinClock
    /\ clock_reads = 0
    /\ now_used = NaT
    /\ intervals = <<>>
    /\ call = 1
    /\ prev_minutes = ZeroMinutes
    /\ prev_now = NaT
    /\ sorted_before = <<>>
    /\ ComIdle
    /\ FmtIdle
    /\ ConcIdle
    /\ FetchIdle
    /\ LoginIdle
    /\ StoriesIdle
    /\ AddIdle

\* Lines 52-60 and 63: the pass at index i up to the test of line 63.
PassHead ==
    /\ pc = "loop"
    /\ i < Len(df_h)
    /\ LET current_status == df_h[i + 1].To
           start_time == df_h[i + 1].Date
           next == HasNext(i, Len(df_h))
           end_time == IF next THEN df_h[i + 2].Date ELSE clock
       IN  /\ clock_reads' = IF next THEN clock_reads ELSE clock_reads + 1
           /\ now_used' = IF next THEN now_used ELSE clock
           /\ intervals' = Append(intervals,
                 [status |-> current_status, start_time |-> start_time,
                  end_time |-> end_time])
           /\ IF current_status \in DOMAIN durations_minutes
              THEN /\ pc' = "office"
                   /\ i' = i
                   /\ com_pc' = "call"
                   /\ com_start' = start_time
                   /\ com_end' = end_time
                   /\ com_day' = 0
                   /\ com_total' = 0
                   /\ com_added' = <<>>
                   /\ com_result' = 0
              ELSE /\ pc' = "loop"
                   /\ i' = i + 1
                   /\ UNCHANGED comVars
    /\ UNCHANGED <<history_entries, status_changes, df_h, durations_minutes,
                   result, raised, clock, call, prev_minutes, prev_now,
                   sorted_before>>
    /\ UNCHANGED notAnalyzeCom

\* Lines 64-66: _calculate_office_minutes has returned.
PassTail ==
    /\ pc = "office"
    /\ com_pc = "done"
    /\ durations_minutes' =
          [durations_minutes EXCEPT ![df_h[i + 1].To] = @ + Max(0, com_result)]
    /\ i' = i + 1
    /\ pc' = "loop"
    /\ com_pc' = "idle"
    /\ UNCHANGED <<history_entries, status_changes, df_h, result, raised, clock,
                   clock_reads, now_used, intervals, call, prev_minutes,
                   prev_now, sorted_before>>
    /\ UNCHANGED <<com_start, com_end, com_day, com_total, com_added, com_result>>
    /\ UNCHANGED notAnalyzeCom

\* A step of the thread that runs the call.
TermStep ==
    \/ ReturnEmpty
    \/ Extract
    \/ Sort
    \/ PassHead
    \/ ComEnter
    \/ ComDay
    \/ ComReturn
    \/ PassTail
    \/ Return

TermNext ==
    \/ Tick
    \/ TermStep

\* The thread that runs the call is not stopped for ever.
TermSpec == TermInit /\ [][TermNext]_vars /\ WF_vars(TermStep)

\* ------------------------------------------------------- binary floating point

\* The minutes of line 100 are Python floats: IEEE 754 binary64 numbers, whose
\* significand has 53 bits.  A float is modelled by its significand, the
\* sequence m of its bits (most significant first, the first bit 1), and its
\* exponent e: it is the number m * 2^e.  Every operation rounds its exact
\* result to the nearest float, ties to the even significand.
MantissaBits == 53

\* The int 0 that total_minutes and the totals start from, and 0.0.
Zero == [m |-> <<>>, e |-> 0]

Zeros(n) == SubSeq([k \in 1..n |-> 0], 1, n)

\* How many binary digits a natural number has.
BitLength(n) == Cardinality({k \in 0..30 : 2^k <= n})

\* The binary digits of a natural number.
Bits(n) ==
    LET L == BitLength(n)
    IN  SubSeq([k \in 1..L |-> (n \div 2^(L - k)) % 2], 1, L)

\* 2^j modulo d, for d below 2^15.
RECURSIVE Pow2Mod(_, _)
Pow2Mod(j, d) ==
    IF j < 30 THEN 2^j % d ELSE (Pow2Mod(j - 29, d) * (2^29 % d)) % d

\* The number digits lo..hi of bits write, modulo d, for d below 2^15.
RECURSIVE NumberMod(_, _, _, _)
NumberMod(bits, lo, hi, d) ==
    IF lo > hi
    THEN 0
    ELSE IF lo = hi
         THEN bits[lo] % d
         ELSE LET mid == (lo + hi) \div 2
              IN  (NumberMod(bits, lo, mid, d) * Pow2Mod(hi - mid, d)
                     + NumberMod(bits, mid + 1, hi, d)) % d

\* bits without its leading zeros.
Strip(bits) ==
    LET ones == {k \in 1..Len(bits) : bits[k] = 1}
    IN  IF ones = {}
        THEN <<>>
        ELSE SubSeq(bits, CHOOSE k \in ones : \A j \in ones : k <= j, Len(bits))

\* bits + 1.
Inc(bits) ==
    LET zeros == {k \in 1..Len(bits) : bits[k] = 0}
    IN  IF zeros = {}
        THEN <<1>> \o Zeros(Len(bits))
        ELSE LET last == CHOOSE k \in zeros : \A j \in zeros : j <= k
             IN  SubSeq(bits, 1, last - 1) \o <<1>> \o Zeros(Len(bits) - last)

\* The carry into digit k of x + y, for x and y of one length: some digit
\* to the right makes a carry and every digit between passes it on.
Carry(x, y, k) ==
    \E j \in k + 1..Len(x) :
        /\ x[j] = 1 /\ y[j] = 1
        /\ \A p \in k + 1..j - 1 : x[p] # y[p]

\* x + y for digit sequences of one length.
AddBits(x, y) ==
    LET digit(k) == (x[k] + y[k] + IF Carry(x, y, k) THEN 1 ELSE 0) % 2
        sum == SubSeq([k \in 1..Len(x) |-> digit(k)], 1, Len(x))
    IN  IF Carry(x, y, 0) THEN <<1>> \o sum ELSE sum

\* Long division of bits by d, d below 2^15: the quotient digit k is what
\* the remainder of the digits before, with digit k brought down, holds of d.
DivBits(bits, d) ==
    LET rem(k) == NumberMod(bits, 1, k, d)
        digit(k) == (2 * rem(k - 1) + bits[k]) \div d
    IN  [q |-> SubSeq([k \in 1..Len(bits) |-> digit(k)], 1, Len(bits)),
         r |-> rem(Len(bits))]

\* The float nearest to bits * 2^e (plus a fraction of its last digit when
\* inexact), ties to even.
RoundNearest(bits, inexact, e) ==
    LET L == Len(bits)
    IN  IF L = 0
        THEN Zero
        ELSE IF L <= MantissaBits
             THEN [m |-> bits \o Zeros(MantissaBits - L),
                   e |-> e - (MantissaBits - L)]
             ELSE LET keep == SubSeq(bits, 1, MantissaBits)
                      guard == bits[MantissaBits + 1]
                      sticky ==
                          inexact \/ \E k \in MantissaBits + 2..L : bits[k] = 1
                      up == guard = 1 /\ (sticky \/ keep[MantissaBits] = 1)
                      m == IF up THEN Inc(keep) ELSE keep
                  IN  IF Len(m) > MantissaBits
                      THEN [m |-> SubSeq(m, 1, MantissaBits),
                            e |-> e + (L - MantissaBits) + 1]
                      ELSE [m |-> m, e |-> e + (L - MantissaBits)]

\* float(n) of an int n, exact below 2^53.
float(n) == RoundNearest(Bits(n), FALSE, 0)

\* x / d for a float x and a whole number d.
truediv(x, d) ==
    IF x = Zero
    THEN Zero
    ELSE LET z == MantissaBits + 2 + BitLength(d) - Len(x.m)
             qr == DivBits(x.m \o Zeros(z), d)
         IN  RoundNearest(Strip(qr.q), qr.r # 0, x.e - z)

\* x + y for floats.
add(x, y) ==
    IF x = Zero
    THEN y
    ELSE IF y = Zero
         THEN x
         ELSE LET e == Min(x.e, y.e)
                  xs == x.m \o Zeros(x.e - e)
                  ys == y.m \o Zeros(y.e - e)
                  n == Max(Len(xs), Len(ys))
              IN  RoundNearest(AddBits(Zeros(n - Len(xs)) \o xs,
                                 Zeros(n - Len(ys)) \o ys),
                         FALSE, e)

\* ----------------------------- office minutes of millisecond timestamps

\* The created_at of a Taiga entry carries a fraction of a second, so the
\* instants are counted here in milliseconds since Monday 00:00 UTC of week 0.

\* Last local calendar day of the instants drawn, from day 2 (a Wednesday) on.
MaxAddDay == 3

\* The instant hh:mm:ss.ms local time of day d.
MsAt(d, hh, mm, ss, ms) ==
    (((d * 1440 + hh * 60 + mm) * 60 + ss) * 1000 + ms) - local_tz * 60000

\* Times of day: before, within and after the office hours.
AddTimes ==
    {<<8, 59, 59, 500>>, <<10, 0, 0, 0>>, <<10, 0, 5, 983>>,
     <<10, 30, 0, 1>>, <<11, 0, 0, 0>>, <<18, 0, 0, 250>>}

AddInstants ==
    {MsAt(d, t[1], t[2], t[3], t[4]) : d \in 2..MaxAddDay, t \in AddTimes}

\* Lines 75-76.
astimezone_ms(t) == t + local_tz * 60000

\* Lines 78 and 80.
date_ms(t_local) == t_local \div (1440 * 60000)

\* Lines 83-88.
work_start_ms(d) ==
    d * (1440 * 60000)
      + (OFFICE_HOURS_START_HOUR * 60 + OFFICE_HOURS_START_MIN) * 60000

\* Lines 89-94.
work_end_ms(d) ==
    d * (1440 * 60000)
      + (OFFICE_HOURS_END_HOUR * 60 + OFFICE_HOURS_END_MIN) * 60000

\* No version of pandas is pinned.  Timedelta.total_seconds is value / 1e9
\* of the nanoseconds before pandas 1.5, and
\* days * 24 * 3600 + seconds + microseconds / 1_000_000 from pandas 1.5 on.
Builds == {"value", "fields"}

\* Line 100: (overlap_end - overlap_start).total_seconds(), of td milliseconds.
total_seconds(build, td) ==
    IF build = "value"
    THEN truediv(float(td), 1000)
    ELSE add(float(td \div 1000), truediv(float(td % 1000), 1000))

\* Lines 81-100: what one pass of the while loop adds to total_minutes.
DayMinutes_ms(build, current_day, start_local, end_local) ==
    IF weekday(current_day) < 5 /\ current_day \notin holidays
    THEN LET overlap_start == Max(start_local, work_start_ms(current_day))
             overlap_end == Min(end_local, work_end_ms(current_day))
         IN  IF overlap_end > overlap_start
             THEN truediv(total_seconds(build, overlap_end - overlap_start), 60)
             ELSE Zero
    ELSE Zero

\* Lines 80-101.
RECURSIVE DayLoop_ms(_, _, _, _, _)
DayLoop_ms(build, current_day, start_local, end_local, total_minutes) ==
    IF current_day <= date_ms(end_local)
    THEN DayLoop_ms(build, current_day + 1, start_local, end_local,
                    add(total_minutes,
                        DayMinutes_ms(build, current_day, start_local, end_local)))
    ELSE total_minutes

\* Lines 71-102.
office_minutes_ms(build, start_utc, end_utc) ==
    IF start_utc >= end_utc
    THEN Zero
    ELSE LET start_local == astimezone_ms(start_utc)
             end_local == astimezone_ms(end_utc)
         IN  DayLoop_ms(build, date_ms(start_local), start_local, end_local, Zero)

AddInit ==
    /\ add_pc = "first"
    /\ add_build \in Builds
    /\ add_a \in AddInstants
    /\ add_b \in AddInstants
    /\ add_c \in AddInstants
    /\ add_a <= add_b
    /\ add_b <= add_c
    /\ add_split = Zero
    /\ add_whole = Zero
    /\ AnalyzeIdle
    /\ ComIdle
    /\ FmtIdle
    /\ ConcIdle
    /\ FetchIdle
    /\ LoginIdle
    /\ StoriesIdle

\* Lines 52-66, first pass over the log with the extra transition: the
\* interval from a to b.  The minutes are never negative, so max(0, ...)
\* passes them on.
AddSplitFirst ==
    /\ add_pc = "first"
    /\ add_split' = add(add_split, office_minutes_ms(add_build, add_a, add_b))
    /\ add_pc' = "second"
    /\ UNCHANGED <<add_build, add_a, add_b, add_c, add_whole>>
    /\ UNCHANGED notAdd

\* Lines 52-66, second pass: the interval from b to c, into the same state.
AddSplitSecond ==
    /\ add_pc = "second"
    /\ add_split' = add(add_split, office_minutes_ms(add_build, add_b, add_c))
    /\ add_pc' = "whole"
    /\ UNCHANGED <<add_build, add_a, add_b, add_c, add_whole>>
    /\ UNCHANGED notAdd

\* Lines 52-66, the one pass over the log without the extra transition.
AddWhole ==
    /\ add_pc = "whole"
    /\ add_whole' = add(add_whole, office_minutes_ms(add_build, add_a, add_c))
    /\ add_pc' = "done"
    /\ UNCHANGED <<add_build, add_a, add_b, add_c, add_split>>
    /\ UNCHANGED notAdd

AddNext ==
    \/ AddSplitFirst
    \/ AddSplitSecond
    \/ AddWhole

AddSpec == AddInit /\ [][AddNext]_vars

\* ------------------------------------------------------- reference sums

\* The total the sorted log `log`, analysed at `now`, gives state s: the sum,
\* over the events entering s, of the business minutes from the event to the
\* next event (to `now` for the last event).
RECURSIVE RefTotalFrom(_, _, _, _)
RefTotalFrom(log, now, s, j) ==
    IF j > Len(log)
    THEN 0
    ELSE (IF log[j].To = s
          THEN _calculate_office_minutes(
                   log[j].Date, IF j < Len(log) THEN log[j + 1].Date ELSE now)
          ELSE 0)
         + RefTotalFrom(log, now, s, j + 1)

RefTotal(log, now, s) == RefTotalFrom(log, now, s, 1)

FiveStates == {"To Do", "In progress", "Peer Review", "Need Approval", "Approved"}

Untracked(s) == s \notin FiveStates

\* ------------------------------------------------------- C1

\* C1: whatever the log, the mapping analyze_time returns has exactly the
\* five tracked state names as its keys.
C1_ExactlyTrackedKeys ==
    pc = "done" => DOMAIN result = FiveStates

\* A returned mapping of a log that moved the item into a tracked state, which
\* accrued time, into another tracked state, which accrued none, and into an
\* untracked state.
C1_Witness ==
    /\ pc = "done"
    /\ DOMAIN result = FiveStates
    /\ \E j \in 1..Len(df_h) : Untracked(df_h[j].To)
    /\ \E j, k \in 1..Len(df_h) :
          /\ df_h[j].To \in FiveStates /\ durations_minutes[df_h[j].To] > 0
          /\ df_h[k].To \in FiveStates /\ durations_minutes[df_h[k].To] = 0

\* ------------------------------------------------------- C2

\* C2: at every step of the accumulation, and after it, the running total of
\* every tracked state is >= 0.
C2_TotalsNonNegative ==
    \A s \in DOMAIN durations_minutes : durations_minutes[s] >= 0

\* The loop has evaluated, for a tracked state, an interval that ends before
\* it starts (the clock is behind the last event), next to one that accrued.
C2_Witness ==
    /\ \E j \in 1..Len(intervals) :
          /\ intervals[j].status \in FiveStates
          /\ ~isna(intervals[j].start_time)
          /\ intervals[j].end_time < intervals[j].start_time
    /\ \E s \in FiveStates : durations_minutes[s] > 0
    /\ \A s \in FiveStates : durations_minutes[s] >= 0

\* ------------------------------------------------------- C3

NoStatusKey(entries) ==
    \A k \in 1..Len(entries) : ~entries[k].values_diff.has_status

\* C3: for the empty history and for a history none of whose entries carries
\* a 'status' key, analyze_time returns every tracked state mapped to "0m".
C3_ZeroWhenNoStatus ==
    (pc \in {"done", "raised"} /\ NoStatusKey(history_entries))
        => (pc = "done" /\ result = [s \in FiveStates |-> <<"0", "m">>])

\* ------------------------------------------------------- C4

\* The sorted log enters B, then A, then B again, A and B tracked, A # B.
Reversion ==
    /\ Len(df_h) = 3
    /\ \A j \in 1..3 : ~isna(df_h[j].Date) /\ df_h[j].To \in FiveStates
    /\ df_h[1].To = df_h[3].To
    /\ df_h[2].To # df_h[1].To

\* C4: for a sorted log entering B at t1, A at t2 and B again at t3, B's
\* total is business_minutes(t1, t2) + business_minutes(t3, now) and A's is
\* business_minutes(t2, t3).
C4_ReversionSums ==
    (pc = "done" /\ Reversion) =>
        /\ durations_minutes[df_h[1].To] =
              _calculate_office_minutes(df_h[1].Date, df_h[2].Date)
              + _calculate_office_minutes(df_h[3].Date, now_used)
        /\ durations_minutes[df_h[2].To] =
              _calculate_office_minutes(df_h[2].Date, df_h[3].Date)

\* A reversion both of whose B intervals, and whose A interval, accrued.
C4_Witness ==
    /\ pc = "done"
    /\ Reversion
    /\ _calculate_office_minutes(df_h[1].Date, df_h[2].Date) > 0
    /\ _calculate_office_minutes(df_h[3].Date, now_used) > 0
    /\ durations_minutes[df_h[2].To] > 0
    /\ durations_minutes[df_h[1].To] >
          _calculate_office_minutes(df_h[3].Date, now_used)

\* ------------------------------------------------------- C5

HasUntracked(log) == \E j \in 1..Len(log) : Untracked(log[j].To)

\* C5: a transition into an untracked state adds nothing to any total and
\* still ends the interval of the event before it: for a log with such a
\* transition, every total is the sum of the business minutes of the events
\* entering that state, each closed at the next event's timestamp, tracked or
\* not (at now for the last event).
C5_UntrackedClosesInterval ==
    (pc = "done" /\ HasUntracked(df_h)) =>
        \A s \in FiveStates : durations_minutes[s] = RefTotal(df_h, now_used, s)

\* A tracked event followed by an untracked one: its total is the business
\* minutes up to the untracked event, which is less than up to now.
C5_Witness ==
    /\ pc = "done"
    /\ Len(df_h) = 2
    /\ df_h[1].To \in FiveStates
    /\ Untracked(df_h[2].To)
    /\ ~isna(df_h[2].Date)
    /\ durations_minutes[df_h[1].To] =
          _calculate_office_minutes(df_h[1].Date, df_h[2].Date)
    /\ durations_minutes[df_h[1].To] > 0
    /\ durations_minutes[df_h[1].To] <
          _calculate_office_minutes(df_h[1].Date, now_used)

\* ------------------------------------------------------- C6

\* x lies in the half-open interval [a, b) of two instants.
InInterval(x, a, b) == ~isna(a) /\ ~isna(b) /\ a <= x /\ x < b

\* C6: the intervals the loop evaluates partition [first event timestamp,
\* now): each starts where the one before ends, the first starts at the
\* earliest event, the last ends at now, and every instant from the first
\* event up to now lies in exactly one of them.
C6_IntervalsPartition ==
    (pc = "done" /\ intervals # <<>>) =>
        /\ \A j \in 1..(Len(intervals) - 1) :
              intervals[j + 1].start_time = intervals[j].end_time
        /\ \A j \in 1..Len(df_h) :
              ~isna(df_h[j].Date) =>
                  /\ ~isna(intervals[1].start_time)
                  /\ intervals[1].start_time <= df_h[j].Date
        /\ intervals[Len(intervals)].end_time = now_used
        /\ \A x \in Instants \cup ClockValues :
              InInterval(x, intervals[1].start_time, now_used) =>
                  Cardinality({j \in 1..Len(intervals) :
                      InInterval(x, intervals[j].start_time,
                                 intervals[j].end_time)}) = 1

\* ------------------------------------------------------- C7

\* Both analyses of the log have returned, and the log has a final event.
BothAnalysed == pc = "done" /\ call = 2 /\ df_h # <<>>

FinalEvent == df_h[Len(df_h)]

C8_ClockReadOnce ==
    /\ clock_reads <= 1
    /\ \A j \in 1..Len(intervals) :
          IF j < Len(df_h)
          THEN intervals[j].end_time = df_h[j + 1].Date
          ELSE clock_reads = 1 /\ intervals[j].end_time = now_used
    /\ (pc = "done" /\ df_h # <<>>) => clock_reads = 1

\* A call over several events returned after the clock moved during its
\* loop: the clock, read once, differs from the value used.
C8_Witness ==
    /\ pc = "done"
    /\ Len(df_h) >= 2
    /\ clock_reads = 1
    /\ intervals[Len(intervals)].end_time = now_used
    /\ now_used > MinClock
    /\ clock > now_used

\* ------------------------------------------------------- C9

\* A raw entry that carries a status change whose timestamp is missing or no
\* date, or whose status pair is too short.
Malformed(entry) ==
    /\ entry.values_diff.has_status
    /\ \/ entry.created_at \in {MissingTs, GarbageTs}
       \/ Len(entry.values_diff.status) < 2

WellFormed(entry) == ~Malformed(entry)

NoNullDiff(entries) ==
    \A k \in 1..Len(entries) : entries[k].values_diff.kind # "null"

\* The sorted transition log of the history without its malformed entries.
CleanLog == sort_values(ExtractFrom(SelectSeq(history_entries, WellFormed), 1, <<>>).changes)

\* C9: a status-change entry with a missing or unparseable timestamp, or a
\* malformed state field, is dropped: the call is not aborted and its totals
\* are those of the log without that entry.
C9_MalformedEntryDropped ==
    (pc \in {"done", "raised"} /\ NoNullDiff(history_entries)) =>
        /\ pc = "done"
        /\ \A s \in FiveStates :
              durations_minutes[s] =
                  RefTotal(CleanLog, IF isna(now_used) THEN clock ELSE now_used, s)

\* ------------------------------------------------------- C10

\* C10: analyze_time never raises to its caller, whatever the raw log.
C10_NeverRaises == pc # "raised"

\* ------------------------------------------------------- C11

\* C11: _calculate_office_minutes returns 0, without raising, whenever start
\* or end is missing or start >= end: such a call goes from its entry
\* straight to its return, and returns 0.
C11_DegenerateIsZero ==
    (com_start = NaT \/ com_end = NaT \/ com_start >= com_end)
        => /\ com_pc \in {"call", "done"}
           /\ com_pc = "done" => com_result = 0

\* A call with a missing start and a dated end returned 0.
C11_Witness ==
    /\ com_pc = "done"
    /\ com_start = NaT
    /\ com_end # NaT
    /\ com_result = 0

\* ------------------------------------------------------- C12

\* Minutes of [a, b) that lie in the office hours of local date d, in ticks.
Overlap(d, a, b) ==
    LET lo == IF a > work_start(d) THEN a ELSE work_start(d)
        hi == IF b < work_end(d) THEN b ELSE work_end(d)
    IN  IF hi - lo > 0 THEN hi - lo ELSE 0

WorkingDate(d) == (d % 7) \in 0..4 /\ d \notin holidays

\* Sum of Overlap over the working dates among the given dates.
RECURSIVE SumOverDates(_, _, _)
SumOverDates(dates, a, b) ==
    IF dates = {}
    THEN 0
    ELSE LET d == CHOOSE x \in dates : TRUE
         IN  (IF WorkingDate(d) THEN Overlap(d, a, b) ELSE 0)
             + SumOverDates(dates \ {d}, a, b)

LocalDate(t) == (t + local_tz * TicksPerMinute) \div (1440 * TicksPerMinute)

ClosedForm(start, end) ==
    SumOverDates(LocalDate(start)..LocalDate(end),
                 start + local_tz * TicksPerMinute,
                 end + local_tz * TicksPerMinute)

\* C12: for start < end the result is the sum, over the working dates from
\* start's local date through end's, of the overlap of [start, end) with the
\* office hours of that date; Monday 17:00 to Wednesday 10:00 gives 660
\* minutes and Monday 10:00 to 11:30 gives 90.
C12_SumOfDailyOverlaps ==
    (com_pc = "done" /\ com_start # NaT /\ com_end # NaT /\ com_start < com_end)
        => /\ com_result = ClosedForm(com_start, com_end)
           /\ (com_start = LocalAt(0, 1020, 0) /\ com_end = LocalAt(2, 600, 0))
                 => com_result = 660 * TicksPerMinute
           /\ (com_start = LocalAt(0, 600, 0) /\ com_end = LocalAt(0, 690, 0))
                 => com_result = 90 * TicksPerMinute

\* The call from Monday 17:00 to Wednesday 10:00 returned 660 minutes.
C12_Witness ==
    /\ com_pc = "done"
    /\ com_start = LocalAt(0, 1020, 0)
    /\ com_end = LocalAt(2, 600, 0)
    /\ com_result = 660 * TicksPerMinute
    /\ Len(com_added) = 3

\* ------------------------------------------------------- C13

DayOff(d) == (d % 7) \in {5, 6} \/ d \in holidays

\* C13: a Saturday, a Sunday or a holiday adds 0 minutes, also when the
\* interval covers its office hours; an interval all of whose local dates
\* are such days gives 0.
C13_DaysOffAddNothing ==
    /\ \A k \in 1..Len(com_added) :
          DayOff(com_added[k].day) => com_added[k].minutes = 0
    /\ (com_pc = "done"
          /\ com_start # NaT /\ com_end # NaT
          /\ \A d \in LocalDate(com_start)..LocalDate(com_end) : DayOff(d))
          => com_result = 0

\* An interval from Wednesday to the next Monday passed over the holiday and
\* the weekend, whose office hours it covers, and accrued on the other days.
C13_Witness ==
    /\ com_pc = "done"
    /\ com_start = LocalAt(2, 600, 0)
    /\ com_end = LocalAt(7, 600, 0)
    /\ \E k \in 1..Len(com_added) : com_added[k] = [day |-> 3, minutes |-> 0]
    /\ \E k \in 1..Len(com_added) : com_added[k] = [day |-> 5, minutes |-> 0]
    /\ \E k \in 1..Len(com_added) : com_added[k] = [day |-> 6, minutes |-> 0]
    /\ com_result = (480 + 540 + 60) * TicksPerMinute

\* An interval within one weekend, over the office hours of both days,
\* returned 0.
C13_WeekendWitness ==
    /\ com_pc = "done"
    /\ com_start = LocalAt(5, 480, 0)
    /\ com_end = LocalAt(6, 1410, 0)
    /\ Len(com_added) = 2
    /\ com_result = 0

\* ------------------------------------------------------- C14

\* The total is a whole number of minutes.
WholeMinutes == fmt_minutes % TicksPerMinute = 0

\* C14: for every non-negative whole number of minutes m, formatting m and
\* parsing the string back gives m.
C14_FormatParseRoundTrip ==
    (fmt_pc \in {"parsed", "raised"} /\ WholeMinutes)
        => /\ fmt_pc = "parsed"
           /\ fmt_parsed * TicksPerMinute = fmt_minutes

\* 4860 minutes went through "9d 0h 0m" and back.
C14_Witness ==
    /\ fmt_pc = "parsed"
    /\ fmt_minutes = 4860 * TicksPerMinute
    /\ fmt_string = <<"9", "d", " ", "0", "h", " ", "0", "m">>
    /\ fmt_parsed = 4860

\* ------------------------------------------------------- C15

\* The number a part such as "12h" carries.
PartValue(part) == int(SelectSeq(part, IsDigit))

\* The last character of a part.
PartUnit(part) == part[Len(part)]

\* C15: with hours = floor(m / 60) and mins = floor(m mod 60), the string is
\* "{days}d {rem_hours}h {mins}m" with days = floor(hours / 9) and rem_hours
\* = hours mod 9 when hours >= 9, "{hours}h {mins}m" when hours < 9, and
\* "0m" when m = 0; rem_hours is in 0..8 and mins in 0..59.
C15_FormatRule ==
    fmt_pc \in {"formatted", "parsed"} =>
        LET parts == split(fmt_string)
            hours == fmt_minutes \div (60 * TicksPerMinute)
            mins == (fmt_minutes \div TicksPerMinute) % 60
        IN  IF fmt_minutes = 0
            THEN fmt_string = <<"0", "m">>
            ELSE IF hours >= 9
            THEN /\ Len(parts) = 3
                 /\ PartUnit(parts[1]) = "d" /\ PartValue(parts[1]) = hours \div 9
                 /\ PartUnit(parts[2]) = "h" /\ PartValue(parts[2]) = hours % 9
                 /\ PartUnit(parts[3]) = "m" /\ PartValue(parts[3]) = mins
                 /\ PartValue(parts[2]) \in 0..8
                 /\ PartValue(parts[3]) \in 0..59
                 /\ fmt_string = parts[1] \o <<" ">> \o parts[2] \o <<" ">> \o parts[3]
                 /\ parts[1] = Str(hours \div 9) \o <<"d">>
            ELSE /\ Len(parts) = 2
                 /\ PartUnit(parts[1]) = "h" /\ PartValue(parts[1]) = hours
                 /\ PartUnit(parts[2]) = "m" /\ PartValue(parts[2]) = mins
                 /\ PartValue(parts[2]) \in 0..59
                 /\ fmt_string = parts[1] \o <<" ">> \o parts[2]
                 /\ parts[1] = Str(hours) \o <<"h">>

\* 599 minutes and a fraction were rendered "1d 0h 59m".
C15_Witness ==
    /\ fmt_pc = "formatted"
    /\ fmt_minutes = 599 * TicksPerMinute + 1
    /\ fmt_string = <<"1", "d", " ", "0", "h", " ", "5", "9", "m">>

\* ------------------------------------------------------- C16

\* C16: two events of one item with the same timestamp are processed in
\* the order they have in the log (the sort is stable), so the later one in
\* the log is the state that holds the interval after them: the sorted
\* frame is the stable order of the extracted events.
C16_TiesKeepLogOrder ==
    pc = "loop" => df_h = sort_values(status_changes)

\* ------------------------------------------------------- C17

\* The orders in which the events of a log can arrive.
Arrangements(rows) ==
    {[k \in 1..Len(rows) |-> rows[f[k]]] : f \in Bijections(Len(rows))}

\* One sorted log for all the orders in which the same events can arrive.
Canonical(rows) ==
    CHOOSE q \in Arrangements(rows) :
        \A k \in 1..(Len(q) - 1) : DateLE(q[k].Date, q[k + 1].Date)

\* The result is the one of the canonical log, whatever the order of arrival.
OrderFree ==
    \A s \in Tracked :
        durations_minutes[s] = RefTotal(Canonical(status_changes), now_used, s)

Analysed == pc = "done" /\ raised = "none" /\ df_h # <<>>

\* C17 as stated: after the sort, the timestamp of event i is <= the
\* timestamp of event i+1 for every i and every order of the raw entries,
\* so the result does not depend on the order in which they arrive.
C17_SortedAndOrderFree ==
    /\ pc = "loop" =>
          \A k \in 1..(Len(df_h) - 1) :
              /\ ~isna(df_h[k].Date)
              /\ ~isna(df_h[k + 1].Date)
              /\ df_h[k].Date <= df_h[k + 1].Date
    /\ Analysed => OrderFree

\* Events of one timestamp enter the same state.
TiesAgree ==
    \A j, k \in 1..Len(status_changes) :
        (~isna(status_changes[j].Date)
            /\ status_changes[j].Date = status_changes[k].Date)
        => status_changes[j].To = status_changes[k].To

\* C17, amended: after the sort the events that have a timestamp are in
\* ascending order of it, ahead of the events that have none, for every
\* order of the raw entries; the result does not depend on the order in
\* which the entries arrive when events of equal timestamps enter the same
\* state.
C17_SortedOrderFreeWithoutTies ==
    /\ pc = "loop" =>
          /\ df_h = Dated(df_h) \o Undated(df_h)
          /\ \A k \in 1..(Len(Dated(df_h)) - 1) :
                Dated(df_h)[k].Date <= Dated(df_h)[k + 1].Date
    /\ (Analysed /\ TiesAgree) => OrderFree

\* Three events that arrived latest first were analysed, and the two states
\* they closed accrued their office minutes.
C17_Witness ==
    /\ Analysed
    /\ Len(status_changes) = 3
    /\ status_changes[1].Date > status_changes[2].Date
    /\ status_changes[2].Date > status_changes[3].Date
    /\ ~isna(status_changes[3].Date)
    /\ df_h[1] = status_changes[3]
    /\ df_h[3] = status_changes[1]
    /\ \E s \in Tracked : durations_minutes[s] > 0

\* ------------------------------------------------------- C18

\* What thread t's call can return when no other call is under way and it
\* reads the clock at the instant `now`: one result for each order the sort
\* can give its events (one order, unless two events have one timestamp).
AloneResults(t, now) ==
    LET rows == ExtractFrom(w_history[t], 1, <<>>).changes
    IN  IF rows = <<>>
        THEN {ZeroResult}
        ELSE {FormatAll(RunAlone(ZeroMinutes, q, 0, now)) : q \in sort_outcomes(rows)}

\* C18: concurrent analyze_time calls on the shared processor write no
\* shared state: under every interleaving each call returns the result it
\* returns when run alone, and the time zone and the holiday set of the
\* processor are unchanged.
C18_ConcurrentCallsIndependent ==
    /\ \A t \in Threads : w_pc[t] = "done" => w_result[t] \in AloneResults(t, w_now[t])
    /\ p_local_tz = local_tz
    /\ p_holidays = holidays

\* Both threads returned, each a total of its own history: one thread's
\* item spent office time in "In progress" only, the other's in "Approved"
\* only.
C18_Witness ==
    /\ \A t \in Threads : w_pc[t] = "done"
    /\ w_result[1]["In progress"] # <<"0", "m">>
    /\ w_result[1]["Approved"] = <<"0", "m">>
    /\ w_result[2]["Approved"] # <<"0", "m">>
    /\ w_result[2]["In progress"] = <<"0", "m">>
    /\ w_now[1] # w_now[2]

\* ------------------------------------------------------- C19

\* C19: across the worker threads, any two history requests are started at
\* least _min_interval apart, under every interleaving of the threads.
C19_RequestsSpaced ==
    f_gap # NoneYet => f_gap >= _min_interval

\* ------------------------------------------------------- C20

\* C20: a call issues at most 3 history requests; a firewall error is
\* retried after a backoff, the third one raises firewall_blocked; any
\* other error is re-raised at once without a retry; the first response is
\* returned.
C20_RetryPolicy ==
    \A t \in Threads :
        /\ f_requests[t] <= 3
        /\ f_last_resp[t] = "ok" => f_pc[t] = "returned" /\ f_exc[t] = "none"
        /\ f_last_resp[t] = "other error"
              => f_pc[t] = "raised" /\ f_exc[t] = "reraised"
        /\ f_last_resp[t] = "firewall error"
              => IF f_requests[t] = 3
                 THEN f_pc[t] = "raised" /\ f_exc[t] = "firewall_blocked"
                 ELSE f_pc[t] # "raised" /\ f_pc[t] # "returned"
        /\ f_pc[t] = "raised"
              => f_last_resp[t] = "other error" \/ f_requests[t] = 3
        /\ (f_requests[t] >= 2 /\ f_pc[t] = "wait")
              => AtLeastTenths(f_retry_wait[t], 10 * Min(10, 2 ^ (f_requests[t] - 1)))

\* One call gave up after three firewall errors, its third request having
\* waited the longest backoff; the other call's second request was answered.
C20_Witness ==
    \E t, u \in Threads :
        /\ f_pc[t] = "raised"
        /\ f_exc[t] = "firewall_blocked"
        /\ f_requests[t] = 3
        /\ f_retry_wait[t] = MaxBackoff
        /\ f_pc[u] = "returned"
        /\ f_requests[u] = 2

\* ------------------------------------------------------- C21

\* The first attempt was stopped by the firewall: the server answered one of
\* its calls with the page of the firewall.
FirstBlocked ==
    \/ a_first_at = "auth" /\ a_first_err \in {"<html>", "doctype", "bitninja"}
    \/ a_first_at = "me" /\ a_first_err = "Access Blocked by Firewall"

\* C21: if the first (basic-URL) attempt is blocked by the firewall, login
\* returns False and makes no attempt with the full URL; the fallback is
\* made only after a first failure that is no firewall block.
C21_NoFallbackWhenBlocked ==
    /\ FirstBlocked =>
          /\ Len(a_hosts) = 1
          /\ a_pc \in {"except1", "done"}
          /\ a_pc = "done" => a_result = "False"
    /\ Len(a_hosts) = 2 => (a_first_err # "none" /\ ~FirstBlocked)

\* ------------------------------------------------------- C22

\* How many records of results are the record of the story.
RecordsOf(story) ==
    Cardinality({k \in 1..Len(g_results) : g_results[k].ID = story})

\* C22: when every per-story fetch succeeds, get_all_stories returns exactly
\* one record per story of the project, none missing and none twice,
\* whatever the order in which the worker threads complete; and at no time
\* does results hold two records of one story or a record of no story.
C22_OneRecordPerStory ==
    /\ (g_pc = "returned" /\ \A f \in g_done : f.ok)
          => /\ Len(g_results) = Len(g_stories)
             /\ \A k \in 1..Len(g_stories) : RecordsOf(g_stories[k]) = 1
    /\ \A k \in 1..Len(g_results) :
          /\ RecordsOf(g_results[k].ID) = 1
          /\ \E j \in 1..Len(g_stories) : g_stories[j] = g_results[k].ID

\* Three stories were returned in another order than the one they were
\* listed in: the last of the list completed first.
C22_Witness ==
    /\ g_pc = "returned"
    /\ Len(g_stories) = 3
    /\ Len(g_results) = 3
    /\ g_results[1].ID = g_stories[3]

\* ------------------------------------------------------- C23

\* The passes made so far handled the events 1..i of the sorted frame, one
\* pass each, in order.
EachEventOnce ==
    pc \in {"loop", "office", "done"} =>
        /\ i <= Len(df_h)
        /\ Len(intervals) = (IF pc = "office" THEN i + 1 ELSE i)
        /\ \A k \in 1..Len(intervals) :
              /\ intervals[k].status = df_h[k].To
              /\ intervals[k].start_time = df_h[k].Date
        /\ (pc = "done" /\ df_h # <<>>) => i = Len(df_h)

\* The day cursor went from the local date of start one date at a time, and
\* the loop was left after the local date of end.
CursorAdvances ==
    (com_pc \in {"loop", "done", "idle"} /\ ~Degenerate(com_start, com_end)) =>
        /\ \A k \in 1..Len(com_added) :
              com_added[k].day = LocalDate(com_start) + (k - 1)
        /\ com_pc = "loop" => com_day = LocalDate(com_start) + Len(com_added)
        /\ Len(com_added) <= LocalDate(com_end) - LocalDate(com_start) + 1
        /\ com_pc \in {"done", "idle"} =>
              Len(com_added) = LocalDate(com_end) - LocalDate(com_start) + 1

\* C23: every analyze_time call terminates: the event loop handles each
\* sorted event exactly once, and inside _calculate_office_minutes the day
\* cursor advances by one date per iteration from the local date of start
\* to the local date of end, after which the loop exits.
C23_CallTerminates ==
    /\ [](EachEventOnce /\ CursorAdvances)
    /\ <>(pc \in {"done", "raised"})

\* A call returned after two passes, the second of which went through the
\* days from Monday to Saturday.
C23_Witness ==
    /\ pc = "done"
    /\ Len(df_h) = 2
    /\ i = 2
    /\ Len(intervals) = 2
    /\ Len(com_added) = 6
    /\ com_added[6].day = 5

\* ------------------------------------------------------------------ C24

\* C24: _calculate_office_minutes is additive over adjacent intervals: for
\* instants a <= b <= c the minutes from a to c are the minutes from a to b
\* plus the minutes from b to c, so a state's total is the same with and
\* without an extra transition into the same state at b.
C24_Additive ==
    add_pc = "done" => add_split = add_whole

=============================================================================
